---- MODULE Spec2Model ----
(***************************************************************************)
(* Model of sysinfo.py: a single-shot host probe that resolves a YAML      *)
(* config, collects disk usage, runs one diagnostic command, compares the  *)
(* free-disk percentage with a threshold, appends one line to a log and    *)
(* overwrites status.json.  One run of the script is a walk of pc through  *)
(* the module's top-level statements; the files persist from run to run.   *)
(*                                                                         *)
(* Numbers that Python holds as percentages are kept in hundredths of a    *)
(* percent (20 % is 2000), which is exact for values rounded to 2 places.  *)
(* Disk sizes are counted in GiB.  An uncaught Python exception ends the   *)
(* interpreter with exit status 1.                                         *)
(***************************************************************************)
EXTENDS Integers, Sequences, FiniteSets, TLC

\* ---------------------------------------------------------------- bounds
MaxRuns == 2          \* runs of the script in one behaviour
MaxTotal == 3         \* largest disk size (GiB) the capacity query reports

\* ------------------------------------------------------- Python values
\* config.get("disk_alert_percent", 20): the default, in hundredths
DefaultThreshold == 20 * 100

\* numeric values a config file may give to disk_alert_percent (hundredths)
ConfigNumbers == {DefaultThreshold, 3334, 5000}

PyNone == [type |-> "NoneType", hasKey |-> FALSE, numeric |-> FALSE, val |-> 0]
PyList == [type |-> "list", hasKey |-> FALSE, numeric |-> FALSE, val |-> 0]
PyDict(hasKey, numeric, val) ==
    [type |-> "dict", hasKey |-> hasKey, numeric |-> numeric, val |-> val]

\* name not yet bound in this run
Unbound == [type |-> "unbound", hasKey |-> FALSE, numeric |-> FALSE, val |-> 0]

\* {"disk_alert_percent": 20}
DefaultConfig == PyDict(TRUE, TRUE, DefaultThreshold)

\* what may be found at ROOT/config.yaml
ConfigFile(kind, doc) == [kind |-> kind, doc |-> doc]
ConfigFiles ==
    {ConfigFile(k, PyNone) : k \in {"missing", "empty", "malformed"}}
    \cup {ConfigFile("document", PyList)}
    \cup {ConfigFile("document", PyDict(FALSE, FALSE, 0))}
    \cup {ConfigFile("document", PyDict(TRUE, FALSE, 0))}
    \cup {ConfigFile("document", PyDict(TRUE, TRUE, n)) : n \in ConfigNumbers}

\* yaml.safe_load(f): an empty stream loads as None, a malformed one raises
\* yaml.YAMLError, a document loads as the value it denotes
safe_load(f) ==
    IF f.kind = "malformed" THEN [raises |-> TRUE, value |-> PyNone]
    ELSE IF f.kind = "empty" THEN [raises |-> FALSE, value |-> PyNone]
    ELSE [raises |-> FALSE, value |-> f.doc]

\* config.get("disk_alert_percent", 20): AttributeError unless config is a dict
config_get(c) ==
    IF c.type # "dict" THEN [raises |-> TRUE, numeric |-> FALSE, val |-> 0]
    ELSE IF c.hasKey THEN [raises |-> FALSE, numeric |-> c.numeric, val |-> c.val]
    ELSE [raises |-> FALSE, numeric |-> TRUE, val |-> DefaultThreshold]

NoThreshold == [raises |-> FALSE, numeric |-> FALSE, val |-> 0 - 1]

\* disk_info["free_percent"] < threshold
BelowThresholdLeq(free_percent, t) == free_percent <= t
BelowThreshold(free_percent, t) == free_percent < t

\* round(n / d): Python rounds halves to even
RoundDiv(n, d) ==
    LET q == n \div d
        r == n % d
    IN  IF 2 * r < d THEN q
        ELSE IF 2 * r > d THEN q + 1
        ELSE IF q % 2 = 0 THEN q ELSE q + 1

\* shutil.disk_usage("/"): raises OSError, or reports total and free
DiskUsage(fails, total, free) == [fails |-> fails, total |-> total, free |-> free]
NoDiskUsage == DiskUsage(FALSE, 0 - 1, 0 - 1)
DiskUsages ==
    {DiskUsage(TRUE, 0, 0)}
    \cup UNION {{DiskUsage(FALSE, t, f) : f \in 0..t} : t \in 0..MaxTotal}

\* the disk_info dict, every field rounded to 2 places (hundredths)
DiskInfo(d) ==
    [total_gb |-> d.total * 100,
     used_gb |-> (d.total - d.free) * 100,
     free_gb |-> d.free * 100,
     free_percent |-> RoundDiv(d.free * 100 * 100, d.total)]
NoDiskInfo == [total_gb |-> 0 - 1, used_gb |-> 0 - 1, free_gb |-> 0 - 1,
               free_percent |-> 0 - 1]

\* the command chosen for the platform, joined for display
Cmd(sys) == IF sys = "Windows" THEN "cmd /c systeminfo" ELSE "uname -a"

\* subprocess.run(cmd, capture_output=True, text=True): FileNotFoundError when
\* the executable cannot be launched, otherwise a completed process
CmdOutcome(launched, rc, out, err) ==
    [launched |-> launched, rc |-> rc, out |-> out, err |-> err]
NoCmdOutcome == CmdOutcome(FALSE, 0 - 1, "", "")
CmdOutcomes ==
    {CmdOutcome(FALSE, 0 - 1, "", ""),
     CmdOutcome(TRUE, 0, "output", ""),
     CmdOutcome(TRUE, 1, "", "error text")}

\* ------------------------------------------------------------- files
LogFile(exists, lines) == [exists |-> exists, lines |-> lines]
Message(kind, pct, sys) == [kind |-> kind, pct |-> pct, sys |-> sys]
\* "[timestamp] message\n"; a write cut short leaves an incomplete line
LogLine(ts, msg, complete) == [ts |-> ts, msg |-> msg, complete |-> complete]

\* log(line): open LOG_FILE in append mode and write one timestamped line
logTruncating(file, ts, msg) == LogFile(TRUE, <<LogLine(ts, msg, TRUE)>>)
log(file, ts, msg) == LogFile(TRUE, Append(file.lines, LogLine(ts, msg, TRUE)))

\* the write fails after the file was opened for append
logPartial(file, ts, msg) ==
    LogFile(TRUE, Append(file.lines, LogLine(ts, msg, FALSE)))

StatusRecord(ts, sys, di, co) ==
    [timestamp |-> ts, system |-> sys, disk |-> di, command_run |-> Cmd(sys),
     command_return_code |-> co.rc, command_stdout_preview |-> co.out,
     command_stderr_preview |-> co.err]
NoStatus == StatusRecord(0, "", NoDiskInfo, NoCmdOutcome)

\* status.json: absent, a complete dump, or cut short after open("w")
StatusFile(state, content) == [state |-> state, content |-> content]

VARIABLES
    pc,           \* next top-level statement of the running script, or idle/done
    runs,         \* runs started so far
    now,          \* datetime.now(), in whole ticks
    system,       \* platform.system()
    LOG_DIR,      \* ROOT/logs exists
    LOG_FILE,     \* ROOT/logs/devops_log.txt
    STATUS_JSON,  \* ROOT/status.json
    CONFIG_FILE,  \* ROOT/config.yaml as found by this run
    config, du, disk_info, cmdResult, threshold, status,   \* module globals
    cmdInvoked,   \* run_cmd was called in this run
    decision,     \* outcome of the branch at line 62: none, ok, alert
    exitCode,     \* process exit status, -1 while running
    outcome,      \* running, normal, alert, aborted
    abortAt,      \* statement whose exception ended the run
    aborts,       \* runs ended by an exception so far
    log0, status0 \* the two output files as they were when the run started

vars == <<pc, runs, now, system, LOG_DIR, LOG_FILE, STATUS_JSON, CONFIG_FILE,
          config, du, disk_info, cmdResult, threshold, status, cmdInvoked,
          decision, exitCode, outcome, abortAt, aborts, log0, status0>>

files == <<LOG_DIR, LOG_FILE, STATUS_JSON>>
locals == <<config, du, disk_info, cmdResult, threshold, status>>

Init ==
    /\ pc = "idle"
    /\ runs = 0
    /\ now = 0
    /\ system \in {"Windows", "Linux"}
    /\ LOG_DIR = FALSE
    /\ LOG_FILE = LogFile(FALSE, <<>>)
    /\ STATUS_JSON = StatusFile("absent", NoStatus)
    /\ CONFIG_FILE = ConfigFile("missing", PyNone)
    /\ config = Unbound
    /\ du = NoDiskUsage
    /\ disk_info = NoDiskInfo
    /\ cmdResult = NoCmdOutcome
    /\ threshold = NoThreshold
    /\ status = NoStatus
    /\ cmdInvoked = FALSE
    /\ decision = "none"
    /\ exitCode = 0 - 1
    /\ outcome = "running"
    /\ abortAt = ""
    /\ aborts = 0
    /\ log0 = LOG_FILE
    /\ status0 = STATUS_JSON

\* the statement that follows p when p completes without branching or raising
NextPcAlertFirst(p) ==
    CASE p = "mkdir" -> "read_config"
      [] p = "read_config" -> "collect"
      [] p = "collect" -> "evaluate"
      [] p = "run_cmd" -> "evaluate"
      [] p = "alert_log" -> "alert_print"
      [] p = "alert_print" -> "alert_exit"
      [] p = "build_status" -> "log_summary"
      [] p = "log_summary" -> "write_status"
      [] p = "write_status" -> "print_ok"
      [] OTHER -> "done"
NextPc(p) ==
    CASE p = "mkdir" -> "read_config"
      [] p = "read_config" -> "collect"
      [] p = "collect" -> "run_cmd"
      [] p = "run_cmd" -> "evaluate"
      [] p = "alert_log" -> "alert_print"
      [] p = "alert_print" -> "alert_exit"
      [] p = "build_status" -> "log_summary"
      [] p = "log_summary" -> "write_status"
      [] p = "write_status" -> "print_ok"
      [] OTHER -> "done"

\* an exception nobody catches: traceback, exit status 1
Raise(at) ==
    /\ pc' = "done"
    /\ exitCode' = 1
    /\ outcome' = "aborted"
    /\ abortAt' = at
    /\ aborts' = aborts + 1

Continue ==
    /\ pc' = NextPc(pc)
    /\ UNCHANGED <<exitCode, outcome, abortAt, aborts>>

\* the interpreter starts the script
StartRun ==
    /\ pc \in {"idle", "done"}
    /\ runs < MaxRuns
    /\ pc' = "mkdir"
    /\ runs' = runs + 1
    /\ now' = now + 1
    /\ config' = Unbound
    /\ du' = NoDiskUsage
    /\ disk_info' = NoDiskInfo
    /\ cmdResult' = NoCmdOutcome
    /\ threshold' = NoThreshold
    /\ status' = NoStatus
    /\ cmdInvoked' = FALSE
    /\ decision' = "none"
    /\ exitCode' = 0 - 1
    /\ outcome' = "running"
    /\ abortAt' = ""
    /\ log0' = LOG_FILE
    /\ status0' = STATUS_JSON
    /\ UNCHANGED <<system, files, CONFIG_FILE, aborts>>

\* LOG_DIR.mkdir(parents=True, exist_ok=True)
Mkdir ==
    /\ pc = "mkdir"
    /\ \/ /\ LOG_DIR' = TRUE
          /\ Continue
       \/ /\ ~LOG_DIR
          /\ Raise("mkdir")
          /\ UNCHANGED LOG_DIR
    /\ UNCHANGED <<runs, now, system, LOG_FILE, STATUS_JSON, CONFIG_FILE,
                   locals, cmdInvoked, decision, log0, status0>>

\* if CONFIG_FILE.exists(): config = yaml.safe_load(f) else: the default
ReadConfig ==
    /\ pc = "read_config"
    /\ \E f \in ConfigFiles :
          /\ CONFIG_FILE' = f
          /\ IF f.kind = "missing"
             THEN config' = DefaultConfig /\ Continue
             ELSE IF safe_load(f).raises
                  THEN Raise("read_config") /\ UNCHANGED config
                  ELSE config' = safe_load(f).value /\ Continue
    /\ UNCHANGED <<runs, now, system, files, du, disk_info, cmdResult,
                   threshold, status, cmdInvoked, decision, log0, status0>>

\* du = shutil.disk_usage("/"); disk_info = {...}
CollectSynthetic ==
    /\ pc = "collect"
    /\ \E d \in DiskUsages :
          /\ du' = d
          /\ IF d.fails
             THEN disk_info' = DiskInfo(DiskUsage(FALSE, 1, 0)) /\ Continue
             ELSE IF d.total = 0
                  THEN Raise("disk_info") /\ UNCHANGED disk_info
                  ELSE disk_info' = DiskInfo(d) /\ Continue
    /\ UNCHANGED <<runs, now, system, files, CONFIG_FILE, config, cmdResult,
                   threshold, status, cmdInvoked, decision, log0, status0>>
Collect ==
    /\ pc = "collect"
    /\ \E d \in DiskUsages :
          /\ du' = d
          /\ IF d.fails
             THEN Raise("disk_usage") /\ UNCHANGED disk_info
             ELSE IF d.total = 0
                  THEN Raise("disk_info") /\ UNCHANGED disk_info
                  ELSE disk_info' = DiskInfo(d) /\ Continue
    /\ UNCHANGED <<runs, now, system, files, CONFIG_FILE, config, cmdResult,
                   threshold, status, cmdInvoked, decision, log0, status0>>

\* rc, out, err = run_cmd(cmd)
run_cmd ==
    /\ pc = "run_cmd"
    /\ cmdInvoked' = TRUE
    /\ \E o \in CmdOutcomes :
          /\ cmdResult' = o
          /\ IF o.launched THEN Continue ELSE Raise("run_cmd")
    /\ UNCHANGED <<runs, now, system, files, CONFIG_FILE, config, du,
                   disk_info, threshold, status, decision, log0, status0>>

\* threshold = config.get(...); if disk_info["free_percent"] < threshold:
Evaluate ==
    /\ pc = "evaluate"
    /\ LET t == config_get(config) IN
          IF t.raises
          THEN Raise("config_get") /\ UNCHANGED <<threshold, decision>>
          ELSE /\ threshold' = t
               /\ IF ~t.numeric
                  THEN Raise("compare") /\ UNCHANGED decision
                  ELSE /\ decision' = IF BelowThreshold(disk_info.free_percent, t.val)
                                      THEN "alert" ELSE "ok"
                       /\ pc' = IF BelowThreshold(disk_info.free_percent, t.val)
                                THEN "alert_log" ELSE "build_status"
                       /\ UNCHANGED <<exitCode, outcome, abortAt, aborts>>
    /\ UNCHANGED <<runs, now, system, files, CONFIG_FILE, config, du,
                   disk_info, cmdResult, status, cmdInvoked, log0, status0>>

\* the call of log(msg) at the current statement: it appends the line, or the
\* open fails and the file is untouched, or the write fails part-way
LogCall(msg) ==
    /\ \/ /\ LOG_FILE' = log(LOG_FILE, now, msg)
          /\ Continue
       \/ /\ UNCHANGED LOG_FILE
          /\ Raise(pc)
       \/ /\ LOG_FILE' = logPartial(LOG_FILE, now, msg)
          /\ Raise(pc)
    /\ UNCHANGED <<runs, now, system, LOG_DIR, STATUS_JSON, CONFIG_FILE,
                   locals, cmdInvoked, decision, log0, status0>>

\* print(...): may raise, e.g. UnicodeEncodeError on a console that cannot
\* encode the emoji
PrintCall ==
    /\ \/ Continue
       \/ Raise(pc)
    /\ UNCHANGED <<runs, now, system, files, CONFIG_FILE, locals, cmdInvoked,
                   decision, log0, status0>>

AlertMessage == Message("alert", threshold.val, "")
SummaryMessage == Message("summary", disk_info.free_percent, system)

\* log(f"ALERT: Disk space below {threshold}%!")
AlertLog == pc = "alert_log" /\ LogCall(AlertMessage)

\* print(f"ALERT: Disk space below {threshold}%!")
AlertPrint == pc = "alert_print" /\ PrintCall

\* exit(1)
AlertFallThrough ==
    /\ pc = "alert_exit"
    /\ pc' = "build_status"
    /\ UNCHANGED <<exitCode, outcome, abortAt, aborts>>
    /\ UNCHANGED <<runs, now, system, files, CONFIG_FILE, locals, cmdInvoked,
                   decision, log0, status0>>
AlertExitZero ==
    /\ pc = "alert_exit"
    /\ pc' = "done"
    /\ exitCode' = 0
    /\ outcome' = "alert"
    /\ UNCHANGED <<runs, now, system, files, CONFIG_FILE, locals, cmdInvoked,
                   decision, abortAt, aborts, log0, status0>>
AlertExit ==
    /\ pc = "alert_exit"
    /\ pc' = "done"
    /\ exitCode' = 1
    /\ outcome' = "alert"
    /\ UNCHANGED <<runs, now, system, files, CONFIG_FILE, locals, cmdInvoked,
                   decision, abortAt, aborts, log0, status0>>

\* status = {...}
BuildStatus ==
    /\ pc = "build_status"
    /\ status' = StatusRecord(now, system, disk_info, cmdResult)
    /\ Continue
    /\ UNCHANGED <<runs, now, system, files, CONFIG_FILE, config, du,
                   disk_info, cmdResult, threshold, cmdInvoked, decision,
                   log0, status0>>

\* log(f"Sysinfo collected on ... | Disk free {free_percent}%")
LogSummary == pc = "log_summary" /\ LogCall(SummaryMessage)

\* with STATUS_JSON.open("w") as f: json.dump(status, f, indent=2)
\* open("w") truncates before anything is written
WriteStatus ==
    /\ pc = "write_status"
    /\ \/ /\ STATUS_JSON' = StatusFile("complete", status)
          /\ Continue
       \/ /\ UNCHANGED STATUS_JSON
          /\ Raise(pc)
       \/ /\ STATUS_JSON' = StatusFile("truncated", NoStatus)
          /\ Raise(pc)
    /\ UNCHANGED <<runs, now, system, LOG_DIR, LOG_FILE, CONFIG_FILE, locals,
                   cmdInvoked, decision, log0, status0>>

\* the three closing prints, then the script ends: exit status 0
PrintOk ==
    /\ pc = "print_ok"
    /\ \/ /\ pc' = "done"
          /\ exitCode' = 0
          /\ outcome' = "normal"
          /\ UNCHANGED <<abortAt, aborts>>
       \/ Raise(pc)
    /\ UNCHANGED <<runs, now, system, files, CONFIG_FILE, locals, cmdInvoked,
                   decision, log0, status0>>

Next ==
    \/ StartRun
    \/ Mkdir
    \/ ReadConfig
    \/ Collect
    \/ run_cmd
    \/ Evaluate
    \/ AlertLog
    \/ AlertPrint
    \/ AlertExit
    \/ BuildStatus
    \/ LogSummary
    \/ WriteStatus
    \/ PrintOk

Spec == Init /\ [][Next]_vars

\* ------------------------------------------------------------ properties
AlertPath == {"alert_log", "alert_print", "alert_exit"}
NormalPath == {"build_status", "log_summary", "write_status", "print_ok"}
PastConfig == pc \notin {"idle", "mkdir", "read_config"} /\ abortAt \notin {"mkdir", "read_config"}

\* C1: a run that reaches the threshold branch takes the alert path exactly
\* when free_percent < threshold (strict); at free_percent = threshold it
\* takes the normal path.
C1_AlertIffStrictlyBelow ==
    /\ pc \in AlertPath => disk_info.free_percent < threshold.val
    /\ pc \in NormalPath => disk_info.free_percent >= threshold.val
    /\ decision # "none" =>
          /\ threshold.numeric
          /\ decision = "alert" <=> disk_info.free_percent < threshold.val
    /\ outcome = "alert" => disk_info.free_percent < threshold.val
    /\ outcome = "normal" => disk_info.free_percent >= threshold.val
C1_Witness ==
    /\ pc = "build_status"
    /\ decision = "ok"
    /\ disk_info.free_percent = threshold.val

\* C2 as stated: a finished run has exit code 1 exactly when the decision was
\* alert and exit code 0 exactly when the normal path completed, so only the
\* alert decision gives a non-zero exit.
C2_Original ==
    pc = "done" =>
        /\ exitCode = 1 <=> decision = "alert"
        /\ exitCode = 0 <=> outcome = "normal"

\* C2 amended: a finished run has exit code 0 exactly when it reached the end
\* of the script, and then the summary line was appended and the status file
\* written; an alert decision ends in exit code 1; a run ended by an uncaught
\* exception ends in exit code 1 as well.
C2_ExitCodes ==
    pc = "done" =>
        /\ exitCode \in {0, 1}
        /\ exitCode = 0 <=> outcome = "normal"
        /\ exitCode = 0 =>
              /\ decision = "ok"
              /\ LOG_FILE.lines =
                    Append(log0.lines, LogLine(now, SummaryMessage, TRUE))
              /\ STATUS_JSON = StatusFile("complete", status)
        /\ decision = "alert" => exitCode = 1
        /\ outcome = "aborted" => exitCode = 1 /\ abortAt # ""
C2_Witness ==
    /\ pc = "done"
    /\ exitCode = 1
    /\ decision = "ok"
    /\ outcome = "aborted"

\* C3 as stated: in a run that takes the alert path the diagnostic command is
\* never invoked.
C3_Original == decision = "alert" => ~cmdInvoked

\* C3 amended: in a run that takes the alert path the diagnostic command has
\* already been invoked and has completed before the threshold decision; the
\* run then ends without building a status record.
C3_CommandPrecedesAlert ==
    decision = "alert" =>
        /\ cmdInvoked
        /\ cmdResult.launched
        /\ cmdResult.rc \in {0, 1}
        /\ status = NoStatus
C3_Witness ==
    /\ pc = "done"
    /\ outcome = "alert"
    /\ exitCode = 1
    /\ cmdInvoked

\* C4: the status file changes only on the non-alert path; a run on the alert
\* path leaves it as it was before the run and appends the alert line to the
\* log.
C4_AlertLeavesStatusFile ==
    /\ decision = "alert" => STATUS_JSON = status0
    /\ STATUS_JSON # status0 => decision = "ok"
    /\ (pc \in {"alert_print", "alert_exit"} \/ outcome = "alert") =>
          /\ LOG_FILE.exists
          /\ LOG_FILE.lines =
                Append(log0.lines, LogLine(now, AlertMessage, TRUE))
C4_Witness ==
    /\ pc = "done"
    /\ outcome = "alert"
    /\ status0.state = "complete"
    /\ STATUS_JSON = status0

\* C5: config resolution never raises, whatever the config file holds, and
\* yields a mapping from which disk_alert_percent can be read; a missing,
\* empty or malformed file yields the default mapping.
C5_ConfigResolutionTotal ==
    /\ abortAt \notin {"read_config", "config_get"}
    /\ PastConfig =>
          /\ config.type = "dict"
          /\ CONFIG_FILE.kind \in {"missing", "empty", "malformed"} =>
                config = DefaultConfig

\* C6: the command step never raises; when the executable cannot be launched
\* the run records a non-zero return code and a non-empty stderr preview and
\* goes on to the threshold evaluation.
C6_ProberNeverRaises ==
    /\ abortAt # "run_cmd"
    /\ (cmdInvoked /\ ~cmdResult.launched) =>
          /\ cmdResult.rc # 0
          /\ cmdResult.err # ""
          /\ pc # "done" \/ decision # "none"

\* C7: the threshold of the evaluation is the configured value when it is
\* present and numeric and 20 when the key is absent or not numeric; a run
\* without a config file has the config of an explicit disk_alert_percent: 20.
C7_ThresholdOrDefault ==
    /\ abortAt # "compare"
    /\ decision # "none" =>
          threshold.val = IF config.hasKey /\ config.numeric
                          THEN config.val ELSE DefaultThreshold
    /\ (PastConfig /\ CONFIG_FILE.kind = "missing") =>
          config = safe_load(ConfigFile("document",
                                        PyDict(TRUE, TRUE, DefaultThreshold))).value

\* C8: every run that ends on the normal or the alert path appends exactly one
\* complete timestamped line and keeps the earlier lines as a prefix; after N
\* such runs and no other the log holds exactly N lines.
C8_LogGrowsByOneLine ==
    /\ Len(LOG_FILE.lines) >= Len(log0.lines)
    /\ Len(LOG_FILE.lines) <= Len(log0.lines) + 1
    /\ SubSeq(LOG_FILE.lines, 1, Len(log0.lines)) = log0.lines
    /\ (pc = "done" /\ outcome \in {"normal", "alert"}) =>
          /\ LOG_FILE.exists
          /\ Len(LOG_FILE.lines) = Len(log0.lines) + 1
          /\ LOG_FILE.lines[Len(LOG_FILE.lines)].complete
          /\ LOG_FILE.lines[Len(LOG_FILE.lines)].ts = now
          /\ LOG_FILE.lines[Len(LOG_FILE.lines)].msg.kind =
                IF outcome = "alert" THEN "alert" ELSE "summary"
    /\ (pc \in {"idle", "done"} /\ aborts = 0) =>
          /\ Len(LOG_FILE.lines) = runs
          /\ \A i \in 1..Len(LOG_FILE.lines) :
                LOG_FILE.lines[i].complete /\ LOG_FILE.lines[i].ts = i
C8_Witness ==
    /\ pc = "done"
    /\ aborts = 0
    /\ runs = 2
    /\ Len(LOG_FILE.lines) = 2
    /\ LOG_FILE.lines[1].msg.kind = "alert"
    /\ LOG_FILE.lines[2].msg.kind = "summary"

\* C9: when the disk capacity query fails the run aborts there: the log file
\* and the status file are as they were before the run, the command was not
\* run and the threshold was not evaluated.
C9_DiskQueryFailureWritesNothing ==
    du.fails =>
        /\ pc = "done"
        /\ outcome = "aborted"
        /\ abortAt = "disk_usage"
        /\ exitCode = 1
        /\ LOG_FILE = log0
        /\ STATUS_JSON = status0
        /\ ~cmdInvoked
        /\ decision = "none"
        /\ threshold = NoThreshold
C9_Witness ==
    /\ du.fails
    /\ pc = "done"
    /\ log0.exists
    /\ Len(log0.lines) = 1
    /\ status0.state = "complete"

\* C10: after a run that aborted, at whatever statement, the status file is
\* the one that was there before the run; it is never cut short.
C10_NoPartialStatusFile ==
    /\ (pc = "done" /\ outcome = "aborted") => STATUS_JSON = status0
    /\ STATUS_JSON.state # "truncated"

====
